---- MODULE Spec2Model ----
(***************************************************************************)
(* Model of clean_vsc_exts.py: the VSCode extension cleanup tool.          *)
(*                                                                         *)
(* A string is a sequence of one-character strings, so that split, join,   *)
(* lstrip, int() and the ordering of str are computed as Python computes   *)
(* them.  The alphabet holds '-', '.', the digits and a few letters; '+',  *)
(* '_' and white space (which int() also accepts) are outside it.          *)
(***************************************************************************)
EXTENDS Naturals, Integers, Sequences, FiniteSets, TLC

VARIABLES
    \* ---- main(): the reconciliation run
    installed,               \* the directory names present in extensions_dir
    listing,                 \* main's `installed`: the listing, in iterdir order
    keep_list,               \* main's keep_list (a set of base names)
    keep_all_versions,       \* args.keep_all_versions
    dry_run,                 \* args.dry_run
    grouped,                 \* main's `grouped`, in dict insertion order
    gi,                      \* position of the for-loop over grouped.items()
    visited,                 \* base names whose loop iteration has been entered
    to_remove,               \* main's to_remove
    to_keep,                 \* main's to_keep
    old_versions_to_remove,  \* main's old_versions_to_remove
    ri,                      \* position of the current removal loop
    success_count,           \* main's success_count
    fail_count,              \* main's fail_count
    attempts,                \* the calls of remove_extension and what each did
    exit_code,               \* main's return value (-1: still running)
    prev_applied,            \* the previous run really applied all its removals
    prev_removed,            \* how many directories the previous run removed
    pc,                      \* position in main
    \* ---- the pure functions, applied to drawn inputs
    fpc,                     \* "idle" | "input" | "output"
    raw,                     \* extension_dir_name given to the decoder
    base_name,               \* extract_base_name(raw)
    version_info,            \* extract_version_info(raw), or the raise
    ver1, ver2,              \* arguments of compare_versions
    cmp_result,              \* compare_versions(ver1, ver2)
    ext_dirs,                \* argument of find_latest_version
    latest                   \* find_latest_version(ext_dirs), or the raise

mainVars == <<installed, listing, keep_list, keep_all_versions, dry_run, grouped,
              gi, visited, to_remove, to_keep, old_versions_to_remove, ri,
              success_count, fail_count, attempts, exit_code, prev_applied,
              prev_removed, pc>>
pureVars == <<fpc, raw, base_name, version_info, ver1, ver2, cmp_result,
              ext_dirs, latest>>
vars == <<mainVars, pureVars>>

(***************************************************************************)
(* Bounds of the model.                                                    *)
(***************************************************************************)
MaxInstalled == 3    \* directories in the listing
MaxNameLen == 5      \* characters of a decoded raw name
MaxVerLen == 3       \* characters of a compared version
MaxGroup == 3        \* entries of a group given to find_latest_version
MaxSuffixLen == 2    \* characters after "p-" in a name of such a group

(***************************************************************************)
(* Python str primitives.                                                  *)
(***************************************************************************)
Digits == {"0", "1", "2", "3", "4", "5", "6", "7", "8", "9"}

\* ord(c), for the characters of the model's alphabets
Ord(c) ==
    CASE c = "-" -> 45 [] c = "." -> 46
      [] c = "0" -> 48 [] c = "1" -> 49 [] c = "2" -> 50 [] c = "3" -> 51
      [] c = "4" -> 52 [] c = "5" -> 53 [] c = "6" -> 54 [] c = "7" -> 55
      [] c = "8" -> 56 [] c = "9" -> 57
      [] c = "a" -> 97 [] c = "p" -> 112 [] c = "q" -> 113 [] c = "x" -> 120

DigitValue(c) == Ord(c) - 48

\* c.isdigit()
IsDigit(c) == c \in Digits

RECURSIVE SplitAcc(_, _, _)
SplitAcc(s, sep, cur) ==
    IF s = <<>> THEN <<cur>>
    ELSE IF Head(s) = sep THEN <<cur>> \o SplitAcc(Tail(s), sep, <<>>)
    ELSE SplitAcc(Tail(s), sep, Append(cur, Head(s)))

\* s.split(sep) for a one-character sep: empty segments are kept
Split(s, sep) == SplitAcc(s, sep, <<>>)

RECURSIVE Join(_, _)
\* sep.join(parts)
Join(parts, sep) ==
    IF parts = <<>> THEN <<>>
    ELSE IF Len(parts) = 1 THEN parts[1]
    ELSE parts[1] \o <<sep>> \o Join(Tail(parts), sep)

RECURSIVE LStrip(_, _)
\* s.lstrip(c)
LStrip(s, c) ==
    IF s # <<>> /\ Head(s) = c THEN LStrip(Tail(s), c) ELSE s

\* s[n:]
DropFirst(s, n) == SubSeq(s, n + 1, Len(s))

\* parts[:-1]
AllButLast(parts) == SubSeq(parts, 1, Len(parts) - 1)

RECURSIVE StrLess(_, _)
\* a < b on str: by code point, a proper prefix is smaller
StrLess(a, b) ==
    IF b = <<>> THEN FALSE
    ELSE IF a = <<>> THEN TRUE
    ELSE IF Ord(Head(a)) < Ord(Head(b)) THEN TRUE
    ELSE IF Ord(Head(a)) > Ord(Head(b)) THEN FALSE
    ELSE StrLess(Tail(a), Tail(b))

AllDigits(p) == p # <<>> /\ \A i \in 1..Len(p) : IsDigit(p[i])

\* whether int(p) returns (TRUE) or raises ValueError (FALSE)
IntParses(p) ==
    \/ AllDigits(p)
    \/ p # <<>> /\ Head(p) = "-" /\ AllDigits(Tail(p))

RECURSIVE NatValue(_)
NatValue(p) ==
    IF p = <<>> THEN 0
    ELSE 10 * NatValue(AllButLast(p)) + DigitValue(p[Len(p)])

\* int(p), where it parses
IntValue(p) == IF Head(p) = "-" THEN 0 - NatValue(Tail(p)) ELSE NatValue(p)

(***************************************************************************)
(* extract_base_name                                                       *)
(***************************************************************************)
RECURSIVE BaseParts(_, _)
\* the for loop over parts[1:]: stop at the first part that starts with a digit
BaseParts(parts, acc) ==
    IF parts = <<>> THEN acc
    ELSE IF Head(parts) # <<>> /\ IsDigit(Head(parts)[1]) THEN acc
    ELSE BaseParts(Tail(parts), Append(acc, Head(parts)))

extract_base_name(extension_dir_name) ==
    LET parts == Split(extension_dir_name, "-")
    IN  IF Len(parts) <= 1 THEN extension_dir_name
        ELSE Join(BaseParts(Tail(parts), <<parts[1]>>), "-")

(***************************************************************************)
(* extract_version_info: the returned tuple, or the IndexError that        *)
(* parts[-1][0] raises on an empty last part.                              *)
(***************************************************************************)
extract_version_info(extension_dir_name) ==
    LET base == extract_base_name(extension_dir_name)
        remainder == LStrip(DropFirst(extension_dir_name, Len(base)), "-")
        parts == Split(remainder, "-")
        last == parts[Len(parts)]
    IN  IF remainder = <<>>
          THEN [raised |-> FALSE, version |-> <<>>, arch |-> <<>>]
        ELSE IF Len(parts) > 1 /\ last = <<>>
          THEN [raised |-> TRUE, version |-> <<>>, arch |-> <<>>]
        ELSE IF Len(parts) > 1 /\ ~IsDigit(last[1])
          THEN [raised |-> FALSE, version |-> Join(AllButLast(parts), "-"),
                arch |-> last]
        ELSE [raised |-> FALSE, version |-> remainder, arch |-> <<>>]

(***************************************************************************)
(* compare_versions                                                        *)
(***************************************************************************)
Max(a, b) == IF a >= b THEN a ELSE b

\* one pass of the loop body at position i: -1 or 1 when it returns, 0 when it
\* goes on to the next position
ComparePart(p1, p2) ==
    IF IntParses(p1) /\ IntParses(p2)
      THEN (IF IntValue(p1) < IntValue(p2) THEN -1
            ELSE IF IntValue(p1) > IntValue(p2) THEN 1 ELSE 0)
      ELSE (IF StrLess(p1, p2) THEN -1
            ELSE IF StrLess(p2, p1) THEN 1 ELSE 0)

\* parts[i] if i < len(parts) else '0'
PartAt(parts, i) == IF i <= Len(parts) THEN parts[i] ELSE <<"0">>

RECURSIVE CompareFrom(_, _, _)
CompareFrom(parts1, parts2, i) ==
    IF i > Max(Len(parts1), Len(parts2)) THEN 0
    ELSE LET c == ComparePart(PartAt(parts1, i), PartAt(parts2, i))
         IN  IF c # 0 THEN c ELSE CompareFrom(parts1, parts2, i + 1)

\* a plausible slip: the parts are compared as text only
compare_versions_textual(v1, v2) ==
    IF v1 = v2 THEN 0 ELSE IF StrLess(v1, v2) THEN -1 ELSE 1

compare_versions(v1, v2) ==
    IF v1 = <<>> /\ v2 = <<>> THEN 0
    ELSE IF v1 = <<>> THEN -1
    ELSE IF v2 = <<>> THEN 1
    ELSE CompareFrom(Split(v1, "."), Split(v2, "."), 1)

(***************************************************************************)
(* find_latest_version: the chosen directory, or the IndexError that       *)
(* extract_version_info raises.                                            *)
(***************************************************************************)
RECURSIVE ScanLatest(_, _, _)
\* the for loop over extension_dirs[1:]
ScanLatest(rest, cur, cur_version) ==
    IF rest = <<>> THEN [raised |-> FALSE, dir |-> cur]
    ELSE LET info == extract_version_info(Head(rest))
             c == compare_versions(info.version, cur_version)
         IN  IF info.raised THEN [raised |-> TRUE, dir |-> <<>>]
             ELSE IF c > 0
               THEN ScanLatest(Tail(rest), Head(rest), info.version)
             ELSE IF c = 0 /\ Len(Head(rest)) > Len(cur)
               THEN ScanLatest(Tail(rest), Head(rest), info.version)
             ELSE ScanLatest(Tail(rest), cur, cur_version)

find_latest_version(extension_dirs) ==
    IF Len(extension_dirs) = 1 THEN [raised |-> FALSE, dir |-> extension_dirs[1]]
    ELSE LET info == extract_version_info(extension_dirs[1])
         IN  IF info.raised THEN [raised |-> TRUE, dir |-> <<>>]
             ELSE ScanLatest(Tail(extension_dirs), extension_dirs[1], info.version)

(***************************************************************************)
(* group_extensions_by_base_name: the defaultdict, as the sequence of its  *)
(* items in insertion order.                                               *)
(***************************************************************************)
RECURSIVE AddToGroup(_, _, _)
\* grouped[base_name].append(ext_dir)
AddToGroup(items, base, dir) ==
    IF items = <<>> THEN << [base |-> base, dirs |-> <<dir>>] >>
    ELSE IF Head(items).base = base
      THEN << [base |-> base, dirs |-> Append(Head(items).dirs, dir)] >>
           \o Tail(items)
    ELSE << Head(items) >> \o AddToGroup(Tail(items), base, dir)

RECURSIVE GroupInto(_, _)
GroupInto(dirs, items) ==
    IF dirs = <<>> THEN items
    ELSE GroupInto(Tail(dirs),
                   AddToGroup(items, extract_base_name(Head(dirs)), Head(dirs)))

group_extensions_by_base_name(extension_dirs) == GroupInto(extension_dirs, <<>>)

(***************************************************************************)
(* One pass of main's loop over grouped.items(): what it adds to to_keep,  *)
(* to_remove and old_versions_to_remove, or the IndexError that leaves it. *)
(***************************************************************************)
\* a plausible slip: the loop stops after the first old version
OldVersionsFirstOnly(dirs, latest_dir) ==
    LET old == SelectSeq(dirs, LAMBDA d : d # latest_dir)
    IN  IF old = <<>> THEN <<>> ELSE <<old[1]>>

\* for ext_dir in ext_dirs: if ext_dir != latest: old_versions_to_remove.append
OldVersions(dirs, latest_dir) == SelectSeq(dirs, LAMBDA d : d # latest_dir)

NoDecision == [raised |-> FALSE, keep |-> <<>>, remove |-> <<>>, old |-> <<>>]

\* a plausible slip: an unlisted extension with one installed version is spared
decide_spares_single(dirs, in_keep_list, keep_all) ==
    IF in_keep_list \/ Len(dirs) = 1
      THEN [NoDecision EXCEPT !.keep = dirs]
      ELSE [NoDecision EXCEPT !.remove = dirs]

decide(dirs, in_keep_list, keep_all) ==
    IF in_keep_list
      THEN IF keep_all
             THEN [NoDecision EXCEPT !.keep = dirs]
             ELSE LET found == find_latest_version(dirs)
                  IN  IF found.raised
                        THEN [NoDecision EXCEPT !.raised = TRUE]
                        ELSE [NoDecision EXCEPT
                                !.keep = <<found.dir>>,
                                !.old = OldVersions(dirs, found.dir)]
      ELSE [NoDecision EXCEPT !.remove = dirs]

(***************************************************************************)
(* remove_extension: its return value, the directory afterwards and what   *)
(* it did.  `outcome` is what shutil.rmtree does when it is called.        *)
(***************************************************************************)
RmtreeOutcomes == {"ok", "PermissionError", "Exception"}

\* a plausible slip: the dry_run test is missing
remove_extension_always(dir, dry, outcome, present) ==
    IF outcome = "ok"
      THEN [ok |-> TRUE, present |-> present \ {dir}, did |-> "removed"]
      ELSE [ok |-> FALSE, present |-> present, did |-> "failed"]

remove_extension(dir, dry, outcome, present) ==
    IF dry
      THEN [ok |-> TRUE, present |-> present, did |-> "would_remove"]
    ELSE IF outcome = "ok"
      THEN [ok |-> TRUE, present |-> present \ {dir}, did |-> "removed"]
      ELSE [ok |-> FALSE, present |-> present, did |-> "failed"]

\* a plausible slip: the else branch that counts a failure is missing
TallyLosesFailure(counts, ok) ==
    IF ok THEN [counts EXCEPT !.success = @ + 1] ELSE counts

\* if remove_extension(...): success_count += 1 else: fail_count += 1
Tally(counts, ok) ==
    IF ok THEN [counts EXCEPT !.success = @ + 1]
          ELSE [counts EXCEPT !.fail = @ + 1]

(***************************************************************************)
(* Inputs.                                                                 *)
(***************************************************************************)
Range(s) == {s[i] : i \in 1..Len(s)}

StringsUpTo(alphabet, n) == UNION {[1..k -> alphabet] : k \in 0..n}

\* sequences of 1..n distinct elements of S
DistinctSeqs(S, n) ==
    {s \in UNION {[1..k -> S] : k \in 1..n} :
        \A i, j \in 1..Len(s) : i # j => s[i] # s[j]}

\* every order in which a directory holding the names S can be listed
Listings(S) ==
    {s \in [1..Cardinality(S) -> S] : Range(s) = S}

\* directory names an extensions directory of the model may hold:
\*   p-1  p-2  p-1-  q  q-1  q-2
Catalogue ==
    { <<"p", "-", "1">>, <<"p", "-", "2">>, <<"p", "-", "1", "-">>,
      <<"q">>, <<"q", "-", "1">>, <<"q", "-", "2">> }

KeepNames == { <<"p">>, <<"q">> }

CodecAlphabet == {"p", "-", "1", "."}

VersionAlphabet == {"0", "1", "2", "a", "."}

\* p-<suffix>: the suffix begins with a digit, so every name decodes to base p
SuffixAlphabet == {"0", "1", "2", "a", "-"}
GroupNames ==
    { <<"p", "-">> \o s : s \in
        {t \in StringsUpTo(SuffixAlphabet, MaxSuffixLen) : t # <<>> /\ IsDigit(t[1])} }

NoInfo == [raised |-> FALSE, version |-> <<>>, arch |-> <<>>]
NoLatest == [raised |-> FALSE, dir |-> <<>>]

MainIdle ==
    /\ installed = {} /\ listing = <<>> /\ keep_list = {}
    /\ keep_all_versions = FALSE /\ dry_run = FALSE
    /\ grouped = <<>> /\ gi = 1 /\ visited = {}
    /\ to_remove = <<>> /\ to_keep = <<>> /\ old_versions_to_remove = <<>>
    /\ ri = 1 /\ success_count = 0 /\ fail_count = 0 /\ attempts = <<>>
    /\ exit_code = -1 /\ prev_applied = FALSE /\ prev_removed = 0
    /\ pc = "idle"

PureBlank ==
    /\ raw = <<>> /\ base_name = <<>> /\ version_info = NoInfo
    /\ ver1 = <<>> /\ ver2 = <<>> /\ cmp_result = 0
    /\ ext_dirs = <<>> /\ latest = NoLatest

(***************************************************************************)
(* The pure functions applied to drawn inputs.                             *)
(***************************************************************************)
InitCodec ==
    /\ MainIdle
    /\ fpc = "input"
    /\ raw \in StringsUpTo(CodecAlphabet, MaxNameLen)
    /\ base_name = <<>> /\ version_info = NoInfo
    /\ ver1 = <<>> /\ ver2 = <<>> /\ cmp_result = 0
    /\ ext_dirs = <<>> /\ latest = NoLatest

Decode ==
    /\ fpc = "input"
    /\ fpc' = "output"
    /\ base_name' = extract_base_name(raw)
    /\ version_info' = extract_version_info(raw)
    /\ UNCHANGED <<mainVars, raw, ver1, ver2, cmp_result, ext_dirs, latest>>

SpecCodec == InitCodec /\ [][Decode]_vars

InitCompare ==
    /\ MainIdle
    /\ fpc = "input"
    /\ ver1 \in StringsUpTo(VersionAlphabet, MaxVerLen)
    /\ ver2 \in StringsUpTo(VersionAlphabet, MaxVerLen)
    /\ raw = <<>> /\ base_name = <<>> /\ version_info = NoInfo
    /\ cmp_result = 0
    /\ ext_dirs = <<>> /\ latest = NoLatest

Compare ==
    /\ fpc = "input"
    /\ fpc' = "output"
    /\ cmp_result' = compare_versions(ver1, ver2)
    /\ UNCHANGED <<mainVars, raw, base_name, version_info, ver1, ver2,
                   ext_dirs, latest>>

SpecCompare == InitCompare /\ [][Compare]_vars

InitLatest ==
    /\ MainIdle
    /\ fpc = "input"
    /\ ext_dirs \in DistinctSeqs(GroupNames, MaxGroup)
    /\ raw = <<>> /\ base_name = <<>> /\ version_info = NoInfo
    /\ ver1 = <<>> /\ ver2 = <<>> /\ cmp_result = 0
    /\ latest = NoLatest

FindLatest ==
    /\ fpc = "input"
    /\ fpc' = "output"
    /\ latest' = find_latest_version(ext_dirs)
    /\ UNCHANGED <<mainVars, raw, base_name, version_info, ver1, ver2,
                   cmp_result, ext_dirs>>

SpecLatest == InitLatest /\ [][FindLatest]_vars

(***************************************************************************)
(* main(), from the listing on.  The keep file and the directory have been *)
(* read; a run is one call of main.                                        *)
(***************************************************************************)
Init ==
    /\ listing \in {<<>>} \cup DistinctSeqs(Catalogue, MaxInstalled)
    /\ installed = Range(listing)
    /\ keep_list \in SUBSET KeepNames
    /\ keep_all_versions \in BOOLEAN
    /\ dry_run \in BOOLEAN
    /\ grouped = <<>> /\ gi = 1 /\ visited = {}
    /\ to_remove = <<>> /\ to_keep = <<>> /\ old_versions_to_remove = <<>>
    /\ ri = 1 /\ success_count = 0 /\ fail_count = 0 /\ attempts = <<>>
    /\ exit_code = -1 /\ prev_applied = FALSE /\ prev_removed = 0
    /\ pc = "group"
    /\ fpc = "idle" /\ PureBlank

\* grouped = group_extensions_by_base_name(installed)
GroupExtensions ==
    /\ pc = "group"
    /\ grouped' = group_extensions_by_base_name(listing)
    /\ gi' = 1
    /\ pc' = "decide"
    /\ UNCHANGED <<installed, listing, keep_list, keep_all_versions, dry_run,
                   visited, to_remove, to_keep, old_versions_to_remove, ri,
                   success_count, fail_count, attempts, exit_code, prev_applied,
                   prev_removed, pureVars>>

\* one pass of: for base_name, ext_dirs in grouped.items()
DecideGroup ==
    /\ pc = "decide"
    /\ gi <= Len(grouped)
    /\ LET g == grouped[gi]
           d == decide(g.dirs, g.base \in keep_list, keep_all_versions)
       IN  /\ visited' = visited \cup {g.base}
           /\ IF d.raised
                THEN \* the IndexError leaves main: the process ends with a traceback
                     /\ pc' = "crashed"
                     /\ exit_code' = 1
                     /\ UNCHANGED <<gi, to_keep, to_remove, old_versions_to_remove>>
                ELSE /\ to_keep' = to_keep \o d.keep
                     /\ to_remove' = to_remove \o d.remove
                     /\ old_versions_to_remove' = old_versions_to_remove \o d.old
                     /\ gi' = gi + 1
                     /\ UNCHANGED <<pc, exit_code>>
    /\ UNCHANGED <<installed, listing, keep_list, keep_all_versions, dry_run,
                   grouped, ri, success_count, fail_count, attempts,
                   prev_applied, prev_removed, pureVars>>

\* the summary, and the early return when there is nothing to remove
Summary ==
    /\ pc = "decide"
    /\ gi > Len(grouped)
    /\ IF to_remove = <<>> /\ old_versions_to_remove = <<>>
         THEN pc' = "done" /\ exit_code' = 0
         ELSE pc' = "remove_unwanted" /\ UNCHANGED exit_code
    /\ ri' = 1 /\ success_count' = 0 /\ fail_count' = 0
    /\ UNCHANGED <<installed, listing, keep_list, keep_all_versions, dry_run,
                   grouped, gi, visited, to_remove, to_keep,
                   old_versions_to_remove, attempts, prev_applied, prev_removed,
                   pureVars>>

\* one pass of a removal loop over `dirs`
RemoveOne(dirs) ==
    \E outcome \in RmtreeOutcomes :
        LET r == remove_extension(dirs[ri], dry_run, outcome, installed)
            counts == Tally([success |-> success_count, fail |-> fail_count], r.ok)
        IN  /\ installed' = r.present
            /\ attempts' = Append(attempts, [dir |-> dirs[ri], did |-> r.did])
            /\ success_count' = counts.success
            /\ fail_count' = counts.fail
            /\ ri' = ri + 1

\* for ext_dir in to_remove
RemoveUnwanted ==
    /\ pc = "remove_unwanted"
    /\ IF ri <= Len(to_remove)
         THEN RemoveOne(to_remove) /\ UNCHANGED pc
         ELSE /\ pc' = "remove_old" /\ ri' = 1
              /\ UNCHANGED <<installed, attempts, success_count, fail_count>>
    /\ UNCHANGED <<listing, keep_list, keep_all_versions, dry_run, grouped, gi,
                   visited, to_remove, to_keep, old_versions_to_remove,
                   exit_code, prev_applied, prev_removed, pureVars>>

\* for ext_dir in old_versions_to_remove, then the final summary and return
RemoveOld ==
    /\ pc = "remove_old"
    /\ IF ri <= Len(old_versions_to_remove)
         THEN RemoveOne(old_versions_to_remove) /\ UNCHANGED <<pc, exit_code>>
         ELSE /\ pc' = "done"
              /\ exit_code' = (IF fail_count = 0 THEN 0 ELSE 1)
              /\ UNCHANGED <<installed, attempts, success_count, fail_count, ri>>
    /\ UNCHANGED <<listing, keep_list, keep_all_versions, dry_run, grouped, gi,
                   visited, to_remove, to_keep, old_versions_to_remove,
                   prev_applied, prev_removed, pureVars>>

\* the tool is run again, with the same keep file and flags, on the directory
\* as the finished run left it
Rerun ==
    /\ pc = "done"
    /\ listing' \in Listings(installed)
    /\ prev_applied' = (~dry_run /\ fail_count = 0)
    /\ prev_removed' = (IF dry_run THEN 0 ELSE success_count)
    /\ grouped' = <<>> /\ gi' = 1 /\ visited' = {}
    /\ to_remove' = <<>> /\ to_keep' = <<>> /\ old_versions_to_remove' = <<>>
    /\ ri' = 1 /\ success_count' = 0 /\ fail_count' = 0 /\ attempts' = <<>>
    /\ exit_code' = -1 /\ pc' = "group"
    /\ UNCHANGED <<installed, keep_list, keep_all_versions, dry_run, pureVars>>

Next ==
    \/ GroupExtensions
    \/ DecideGroup
    \/ Summary
    \/ RemoveUnwanted
    \/ RemoveOld
    \/ Rerun

Spec == Init /\ [][Next]_vars

(***************************************************************************)
(* Properties.                                                             *)
(***************************************************************************)
Decided == to_remove \o old_versions_to_remove

AttemptDirs == [i \in 1..Len(attempts) |-> attempts[i].dir]

IsPrefix(a, b) == Len(a) <= Len(b) /\ SubSeq(b, 1, Len(a)) = a

RemovalPhase == pc \in {"remove_unwanted", "remove_old", "done"}

\* the entries of the listing that decode to base name b
EntriesOf(b) == {d \in Range(listing) : extract_base_name(d) = b}

ListedBases == {extract_base_name(d) : d \in Range(listing)}

\* C1: in a dry run the directory stays as it was listed and shutil.rmtree is
\* never called; every decided removal is nevertheless reported, once, as a
\* would-remove action and counted.
C1_DryRunOnlyReports ==
    dry_run =>
        /\ installed = Range(listing)
        /\ \A i \in 1..Len(attempts) : attempts[i].did = "would_remove"
        /\ IsPrefix(AttemptDirs, Decided)
        /\ pc = "done" =>
             /\ AttemptDirs = Decided
             /\ success_count = Len(Decided)
             /\ fail_count = 0

C1_Witness ==
    /\ dry_run /\ pc = "done"
    /\ to_remove # <<>> /\ old_versions_to_remove # <<>>
    /\ Len(attempts) = Len(Decided)

\* C2: in a run that is not a dry run, the removals attempted so far are the
\* decided ones in order, each once, whatever the earlier outcomes were; each
\* attempt is counted as a success or a failure; when the run is done every
\* decided removal has been attempted and success_count + fail_count is
\* their number.
C2_EveryRemovalAttemptedOnce ==
    ~dry_run =>
        /\ IsPrefix(AttemptDirs, Decided)
        /\ \A i, j \in 1..Len(attempts) :
               i # j => attempts[i].dir # attempts[j].dir
        /\ RemovalPhase => success_count + fail_count = Len(attempts)
        /\ fail_count = Cardinality({i \in 1..Len(attempts) :
                                        attempts[i].did = "failed"})
        /\ pc = "done" =>
             /\ AttemptDirs = Decided
             /\ success_count + fail_count = Len(Decided)

C2_Witness ==
    /\ ~dry_run /\ pc = "done"
    /\ Len(attempts) = 3
    /\ attempts[1].did = "failed"
    /\ attempts[2].did = "removed"
    /\ attempts[3].did = "failed"
    /\ fail_count = 2 /\ success_count = 1

\* C3: a run that follows a run whose decided removals were all really
\* applied, with the same keep list and flags, decides no removal (and does
\* not abort).
C3_RerunDecidesNothing ==
    prev_applied =>
        /\ to_remove = <<>>
        /\ old_versions_to_remove = <<>>
        /\ pc # "crashed"

C3_Witness ==
    /\ prev_applied /\ prev_removed >= 2
    /\ pc = "done" /\ exit_code = 0
    /\ ~keep_all_versions
    /\ Len(to_keep) = 1

\* C4: once the loop has passed a group whose base name is not in the keep
\* list, every listed entry decoding to that base name is in to_remove and in
\* neither to_keep nor old_versions_to_remove, whatever keep_all_versions is;
\* when the removals start this is so for every unlisted base name.
C4_UnlistedGroupRemoved ==
    \A b \in ListedBases :
        b \notin keep_list =>
            /\ \A d \in EntriesOf(b) :
                   /\ d \notin Range(to_keep)
                   /\ d \notin Range(old_versions_to_remove)
            /\ (b \in visited \/ RemovalPhase) =>
                   EntriesOf(b) \subseteq Range(to_remove)

C4_Witness ==
    /\ pc = "done" /\ keep_all_versions
    /\ \E b \in ListedBases :
           /\ b \notin keep_list
           /\ Cardinality(EntriesOf(b)) >= 2
           /\ EntriesOf(b) \subseteq Range(to_remove)
    /\ to_keep # <<>>

\* C5: once the loop has entered a group whose base name is in the keep list,
\* with keep_all_versions false, exactly one entry of the group is in to_keep
\* and every other entry of it is in old_versions_to_remove.
C5_KeptGroupKeepsExactlyOne ==
    \A b \in visited :
        (b \in keep_list /\ ~keep_all_versions) =>
            /\ Cardinality(EntriesOf(b) \cap Range(to_keep)) = 1
            /\ \A d \in EntriesOf(b) :
                   d \notin Range(to_keep) => d \in Range(old_versions_to_remove)

\* C6: decoding a raw name always returns a result; it never raises.
C6_DecodeNeverRaises ==
    fpc = "output" => ~version_info.raised

\* a part after the first one that begins with a digit
HasVersionPart(name) ==
    LET parts == Split(name, "-")
    IN  \E i \in 2..Len(parts) : parts[i] # <<>> /\ IsDigit(parts[i][1])

\* C7: the base name decoded from a non-empty raw name is not empty, and it is
\* the whole raw name when no part after the first begins with a digit.
C7_BaseNameNotEmpty ==
    (fpc = "output" /\ raw # <<>>) =>
        /\ base_name # <<>>
        /\ ~HasVersionPart(raw) => base_name = raw

\* the integers of a version whose parts all parse
IntTuple(v) == LET parts == Split(v, ".")
               IN  [i \in 1..Len(parts) |-> IntValue(parts[i])]

Numeric(v) == v # <<>> /\ \A part \in Range(Split(v, ".")) : IntParses(part)

\* t padded with zeros to length n
Padded(t, n) == [i \in 1..n |-> IF i <= Len(t) THEN t[i] ELSE 0]

\* the sign of the lexicographic comparison of two integer tuples of one length
LexSign(s, t) ==
    IF s = t THEN 0
    ELSE LET k == CHOOSE i \in 1..Len(s) :
                      s[i] # t[i] /\ \A j \in 1..(i - 1) : s[j] = t[j]
         IN  IF s[k] < t[k] THEN -1 ELSE 1

\* C8: for non-empty versions whose parts all parse as integers,
\* compare_versions returns the sign of the lexicographic comparison of the
\* integer tuples, the shorter one padded with zeros.
C8_NumericCompare ==
    (fpc = "output" /\ Numeric(ver1) /\ Numeric(ver2)) =>
        LET n == Max(Len(IntTuple(ver1)), Len(IntTuple(ver2)))
        IN  cmp_result = LexSign(Padded(IntTuple(ver1), n),
                                 Padded(IntTuple(ver2), n))

\* 2.0 against 10: fewer characters first, more parts, and numerically smaller
C8_Witness ==
    /\ fpc = "output"
    /\ ver1 = <<"2", ".", "0">> /\ ver2 = <<"1", "0">>
    /\ cmp_result = -1

VersionOf(dir) == extract_version_info(dir).version

\* C9: no entry of the group has a version that compares greater than the
\* version of the entry find_latest_version returns.
C9_LatestIsMaximum ==
    (fpc = "output" /\ ~latest.raised) =>
        \A e \in Range(ext_dirs) :
            compare_versions(VersionOf(e), VersionOf(latest.dir)) # 1

\* C10: no entry whose version compares equal to the version of the entry
\* find_latest_version returns has a longer name than that entry.
C10_TieGoesToLongestName ==
    (fpc = "output" /\ ~latest.raised) =>
        \A e \in Range(ext_dirs) :
            compare_versions(VersionOf(e), VersionOf(latest.dir)) = 0
                => Len(e) <= Len(latest.dir)

====
